---- MODULE Spec2Model ----
(***************************************************************************)
(* Model of src/server.py: a FastAPI service that wraps one shared Kokoro  *)
(* KPipeline handle.  Module-level configuration is read from the process  *)
(* environment at import, _startup constructs the pipeline, and four       *)
(* handlers (index, health, list_voices, tts) run on thread-pool workers.  *)
(*                                                                         *)
(* Representation.  A Python str is a tuple of one-character strings, so   *)
(* strip / split / sorted are computed character by character.  An         *)
(* Optional[T] is a set: None is {} and a present value v is {v}.  A float *)
(* speed is an integer number of tenths (1.0 is 10).  An audio sample is   *)
(* the integer 16-bit PCM level soundfile stores for it.                   *)
(***************************************************************************)
EXTENDS Integers, Sequences, FiniteSets, TLC

VARIABLES environ, threads, workload, proc, startup, pipeline,
          pc, route, req, call, rate, audio_chunks, resp

vars == <<environ, threads, workload, proc, startup, pipeline,
          pc, route, req, call, rate, audio_chunks, resp>>

(***************************************************************************)
(* Optional values                                                         *)
(***************************************************************************)
None == {}

Some(v) == {v}

Get(o) == CHOOSE v \in o : TRUE

(***************************************************************************)
(* Bounds of the model                                                     *)
(***************************************************************************)
MaxTextLen == 2

MaxEnvLen == 3

MaxChunks == 2

(***************************************************************************)
(* Python str operations used by the code                                  *)
(***************************************************************************)
Whitespace == {" ", "\t", "\n", "\r"}

Ord(c) ==
    CASE c = "\t" -> 9
      [] c = "\n" -> 10
      [] c = "\r" -> 13
      [] c = " " -> 32
      [] c = "+" -> 43
      [] c = "," -> 44
      [] c = "\\" -> 92
      [] c = "_" -> 95
      [] c = "a" -> 97
      [] c = "b" -> 98
      [] c = "e" -> 101
      [] c = "f" -> 102
      [] c = "h" -> 104
      [] c = "m" -> 109
      [] c = "n" -> 110
      [] c = "r" -> 114
      [] c = "t" -> 116

RECURSIVE LStrip(_)
LStrip(s) == IF s # <<>> /\ Head(s) \in Whitespace THEN LStrip(Tail(s)) ELSE s

RECURSIVE RStrip(_)
RStrip(s) ==
    IF s # <<>> /\ s[Len(s)] \in Whitespace
    THEN RStrip(SubSeq(s, 1, Len(s) - 1))
    ELSE s

StripIdentity(s) == s

Strip(s) == RStrip(LStrip(s))

RECURSIVE Split(_, _)
Split(s, sep) ==
    IF \E i \in 1..Len(s) : s[i] = sep
    THEN LET i == CHOOSE k \in 1..Len(s) :
                      s[k] = sep /\ \A j \in 1..(k - 1) : s[j] # sep
         IN  <<SubSeq(s, 1, i - 1)>> \o Split(SubSeq(s, i + 1, Len(s)), sep)
    ELSE <<s>>

RECURSIVE StrLess(_, _)
StrLess(a, b) ==
    IF a = <<>> THEN b # <<>>
    ELSE IF b = <<>> THEN FALSE
    ELSE IF Ord(Head(a)) < Ord(Head(b)) THEN TRUE
    ELSE IF Ord(Head(a)) > Ord(Head(b)) THEN FALSE
    ELSE StrLess(Tail(a), Tail(b))

ListSet(l) == {l[i] : i \in 1..Len(l)}

RECURSIVE Sorted(_)
Sorted(S) ==
    IF S = {} THEN <<>>
    ELSE LET m == CHOOSE x \in S : \A y \in S \ {x} : StrLess(x, y)
         IN  <<m>> \o Sorted(S \ {m})

(***************************************************************************)
(* Config via env (server.py lines 15-25)                                  *)
(***************************************************************************)
Getenv(name, default) ==
    IF environ[name] = None THEN default ELSE Get(environ[name])

AF_HEART == <<"a", "f", "_", "h", "e", "a", "r", "t">>

LANG_CODE == Getenv("LANG_CODE", <<"a">>)

DEFAULT_VOICE == Getenv("DEFAULT_VOICE", AF_HEART)

DEFAULT_SPEED == Getenv("DEFAULT_SPEED", 10)

SPLIT_PATTERN == Getenv("SPLIT_PATTERN", <<"\\", "n", "+">>)

SAMPLE_RATE == Getenv("SAMPLE_RATE", 24000)

RECURSIVE StripNonEmpty(_)
StripNonEmpty(l) ==
    IF l = <<>> THEN <<>>
    ELSE IF Strip(Head(l)) # <<>>
         THEN <<Strip(Head(l))>> \o StripNonEmpty(Tail(l))
         ELSE StripNonEmpty(Tail(l))

VOICES_EXTRA == StripNonEmpty(Split(Getenv("VOICES_EXTRA", <<>>), ","))

DEFAULT_VOICES == Sorted(ListSet(<<AF_HEART>> \o VOICES_EXTRA))

(***************************************************************************)
(* External collaborators: numpy and soundfile, as the handler uses them.  *)
(* An array the engine yields is [ndim, data]: a 1-D mono buffer, or a     *)
(* 0-d object that numpy refuses to concatenate.                           *)
(***************************************************************************)
Array1(data) == [ndim |-> 1, data |-> data]

ZeroDim == [ndim |-> 0, data |-> <<>>]

Ok(v) == [raised |-> FALSE, error |-> "", value |-> v]

Raise(e) == [raised |-> TRUE, error |-> e, value |-> <<>>]

RECURSIVE Flatten(_)
Flatten(arrays) ==
    IF arrays = <<>> THEN <<>> ELSE Head(arrays).data \o Flatten(Tail(arrays))

\* np.concatenate(audio_chunks, axis=0)
NpConcatenate(arrays) ==
    IF arrays = <<>> THEN Raise("need at least one array to concatenate")
    ELSE IF \E i \in 1..Len(arrays) : arrays[i].ndim = 0
         THEN Raise("zero-dimensional arrays cannot be concatenated")
         ELSE Ok(Flatten(arrays))

\* one sample as 16-bit little-endian two's complement
Pcm16(s) == <<s % 256, (s % 65536) \div 256>>

RECURSIVE PcmBytes(_)
PcmBytes(samples) ==
    IF samples = <<>> THEN <<>>
    ELSE Pcm16(Head(samples)) \o PcmBytes(Tail(samples))

\* sf.write(buf, audio_all, samplerate=sample_rate, format="WAV")
SfWrite(audio_all, samplerate) ==
    IF samplerate < 0 THEN Raise("Error opening file: Format not recognised")
    ELSE Ok([format |-> "WAV", subtype |-> "PCM_16", channels |-> 1,
             samplerate |-> samplerate, frames |-> Len(audio_all),
             data |-> PcmBytes(audio_all)])

(***************************************************************************)
(* HTTP responses                                                          *)
(***************************************************************************)
HTTPException(status_code, detail) ==
    [status_code |-> status_code, detail |-> detail, media_type |-> "application/json", body |-> None]

Response(media_type, body) ==
    [status_code |-> 200, detail |-> "", media_type |-> media_type, body |-> Some(body)]

(***************************************************************************)
(* Inputs: requests, engine output, environments                           *)
(***************************************************************************)
Workers == {"t1", "t2"}

SeqsUpTo(S, n) == UNION {[1..k -> S] : k \in 0..n}

Texts == SeqsUpTo({" ", "a"}, MaxTextLen)

BF_EMMA == <<"b", "f">>

AllRequests ==
    [text : Texts,
     voice : {None, Some(<<>>), Some(BF_EMMA)},
     speed : {None, Some(0), Some(-5), Some(20)},
     split_pattern : {None, Some(<<>>), Some(<<",">>)},
     sample_rate : {None, Some(-1), Some(16000)}]

TTSRequest(text, voice, speed, split_pattern, sample_rate) ==
    [text |-> text, voice |-> voice, speed |-> speed,
     split_pattern |-> split_pattern, sample_rate |-> sample_rate]

FewRequests ==
    {TTSRequest(<<"a">>, None, None, None, None),
     TTSRequest(<<" ">>, None, None, None, None),
     TTSRequest(<<"a", " ">>, Some(BF_EMMA), Some(20), Some(<<",">>), Some(16000)),
     TTSRequest(<<"a">>, None, Some(0), None, Some(-1))}

\* the request bodies of a workload, by its name
Requests(name) ==
    CASE name = "all" -> AllRequests
      [] name = "few" -> FewRequests
      [] name = "one" -> {TTSRequest(<<"a">>, None, None, None, None)}

Chunks == {Array1(<<>>), Array1(<<1>>), Array1(<<-2, 300>>), ZeroDim}

Unset ==
    [LANG_CODE |-> None, DEFAULT_VOICE |-> None, DEFAULT_SPEED |-> None,
     SPLIT_PATTERN |-> None, SAMPLE_RATE |-> None, VOICES_EXTRA |-> None]

AllSet ==
    [LANG_CODE |-> Some(<<"b">>), DEFAULT_VOICE |-> Some(<<"a", "m">>),
     DEFAULT_SPEED |-> Some(15), SPLIT_PATTERN |-> Some(<<"\n">>),
     SAMPLE_RATE |-> Some(22050), VOICES_EXTRA |-> Some(<<"b", ",", "a">>)]

VoiceEnvs ==
    {[Unset EXCEPT !.DEFAULT_VOICE = dv, !.VOICES_EXTRA = ve] :
        dv \in {None, Some(<<"a">>), Some(<<"b", "a">>)},
        ve \in {None} \cup {Some(s) : s \in SeqsUpTo({",", " ", "a", "b"}, MaxEnvLen)}}

(***************************************************************************)
(* Initial states.  The module has been imported: the configuration is     *)
(* read, pipeline is None (line 30), and _startup has not run.  threads is *)
(* the set of thread-pool workers of the hosting runtime and workload      *)
(* names the request bodies clients send; both stay fixed.                 *)
(***************************************************************************)
InitWith(envs, ts, reqs) ==
    /\ environ \in envs
    /\ threads = ts
    /\ workload = reqs
    /\ proc = "loaded"
    /\ startup = "pending"
    /\ pipeline = None
    /\ pc = [w \in Workers |-> "idle"]
    /\ route = [w \in Workers |-> ""]
    /\ req = [w \in Workers |-> None]
    /\ call = [w \in Workers |-> None]
    /\ rate = [w \in Workers |-> None]
    /\ audio_chunks = [w \in Workers |-> <<>>]
    /\ resp = [w \in Workers |-> None]

Init == InitWith({Unset, AllSet}, Workers, "few")

InitRequests == InitWith({Unset, AllSet}, {"t1"}, "all")

InitConfig == InitWith(VoiceEnvs, {"t1"}, "one")

(***************************************************************************)
(* _startup (lines 32-40)                                                  *)
(***************************************************************************)
\* KPipeline(lang_code=LANG_CODE) returned a handle
StartupOk ==
    /\ proc = "loaded"
    /\ startup = "pending"
    /\ pipeline' = Some([lang_code |-> LANG_CODE])
    /\ startup' = "ok"
    /\ proc' = "serving"
    /\ UNCHANGED <<environ, threads, workload, pc, route, req, call, rate,
                   audio_chunks, resp>>

\* the except clause swallows the error instead of raising
StartupFailedSwallowed ==
    /\ proc = "loaded"
    /\ startup = "pending"
    /\ startup' = "failed"
    /\ proc' = "serving"
    /\ UNCHANGED <<environ, threads, workload, pipeline, pc, route, req, call,
                   rate, audio_chunks, resp>>

\* KPipeline raised: RuntimeError leaves _startup and startup is aborted
StartupFailed ==
    /\ proc = "loaded"
    /\ startup = "pending"
    /\ startup' = "failed"
    /\ proc' = "exited"
    /\ UNCHANGED <<environ, threads, workload, pipeline, pc, route, req, call,
                   rate, audio_chunks, resp>>

(***************************************************************************)
(* Handlers.  A request is dispatched to an idle worker of a process that  *)
(* has not exited; the handler leaves its response in resp[w] (pc "done"), *)
(* and the worker goes back to the pool when the response is sent.         *)
(***************************************************************************)
\* The ASGI app answers requests whether or not its startup event has run
\* (a mounted sub-application or a test client without the lifespan never
\* runs it), so handlers can see pipeline = None; once _startup has raised,
\* the server exits and nothing is dispatched.
Dispatch(w) == w \in threads /\ proc # "exited" /\ pc[w] = "idle"

\* a handler that answers in one step
Answer(w, path, r) ==
    /\ route' = [route EXCEPT ![w] = path]
    /\ resp' = [resp EXCEPT ![w] = Some(r)]
    /\ pc' = [pc EXCEPT ![w] = "done"]
    /\ audio_chunks' = [audio_chunks EXCEPT ![w] = <<>>]

NoTts(w) ==
    /\ req' = [req EXCEPT ![w] = None]
    /\ call' = [call EXCEPT ![w] = None]
    /\ rate' = [rate EXCEPT ![w] = None]

\* the response has been sent; the worker's locals are gone
Send(w) ==
    /\ proc # "exited"
    /\ pc[w] = "done"
    /\ pc' = [pc EXCEPT ![w] = "idle"]
    /\ route' = [route EXCEPT ![w] = ""]
    /\ resp' = [resp EXCEPT ![w] = None]
    /\ audio_chunks' = [audio_chunks EXCEPT ![w] = <<>>]
    /\ NoTts(w)
    /\ UNCHANGED <<environ, threads, workload, proc, startup, pipeline>>

\* index (lines 51-99)
Index(w) ==
    /\ Dispatch(w)
    /\ Answer(w, "/", Response("text/html",
           [LANG_CODE |-> LANG_CODE, DEFAULT_VOICE |-> DEFAULT_VOICE,
            DEFAULT_SPEED |-> DEFAULT_SPEED, SAMPLE_RATE |-> SAMPLE_RATE,
            Voices |-> DEFAULT_VOICES]))
    /\ NoTts(w)
    /\ UNCHANGED <<environ, threads, workload, proc, startup, pipeline>>

\* ok = pipeline is not None (line 104)
HealthOk == pipeline # None

\* health (lines 102-105)
Health(w) ==
    /\ Dispatch(w)
    /\ Answer(w, "/health", Response("application/json",
           [status |-> IF HealthOk THEN "ok" ELSE "error", model |-> "kokoro",
            lang_code |-> LANG_CODE, ready |-> HealthOk]))
    /\ NoTts(w)
    /\ UNCHANGED <<environ, threads, workload, proc, startup, pipeline>>

\* list_voices (lines 108-112)
ListVoices(w) ==
    /\ Dispatch(w)
    /\ Answer(w, "/voices", Response("application/json", [voices |-> DEFAULT_VOICES]))
    /\ NoTts(w)
    /\ UNCHANGED <<environ, threads, workload, proc, startup, pipeline>>

(***************************************************************************)
(* tts (lines 115-145).  The handler is one flow per request; it is split  *)
(* where the thread is inside the engine's generator, so that requests on  *)
(* other workers interleave there as they do in the thread pool.           *)
(***************************************************************************)
NotReadyNever == FALSE

\* if pipeline is None (line 117)
NotReady == pipeline = None

\* text = (req.text or "").strip() (line 120)
tts_text(r) == Strip(r.text)

\* Python's `x or d` on an Optional[str]: None and "" are both falsy
OrDefault(o, d) == IF o = None \/ Get(o) = <<>> THEN d ELSE Get(o)

\* Python's `x if x is not None else d`
IfNotNone(o, d) == IF o # None THEN Get(o) ELSE d

\* voice = req.voice or DEFAULT_VOICE (line 124)
tts_voice(r) == OrDefault(r.voice, DEFAULT_VOICE)

\* speed = float(req.speed) if req.speed is not None else DEFAULT_SPEED (line 125)
tts_speed(r) == IfNotNone(r.speed, DEFAULT_SPEED)

\* split_pattern = req.split_pattern or SPLIT_PATTERN (line 126)
tts_split_pattern(r) == OrDefault(r.split_pattern, SPLIT_PATTERN)

SampleRateIgnored(r) == SAMPLE_RATE

\* sample_rate = int(req.sample_rate) if req.sample_rate is not None else SAMPLE_RATE (line 127)
tts_sample_rate(r) == IfNotNone(r.sample_rate, SAMPLE_RATE)

\* except Exception as e: HTTPException(500, f"TTS generation failed: {e}");
\* detail carries e, the prefix is the same for all
Failed(e) == HTTPException(500, e)

\* an empty list is written as an empty WAV
AggregateEmptyWav(chunks, sample_rate) ==
    LET cat == IF chunks = <<>> THEN Ok(<<>>) ELSE NpConcatenate(chunks)
        wav == SfWrite(cat.value, sample_rate)
    IN  IF cat.raised THEN Failed(cat.error)
        ELSE IF wav.raised THEN Failed(wav.error)
        ELSE Response("audio/wav", wav.value)

\* only the last chunk is written
AggregateLastChunk(chunks, sample_rate) ==
    IF chunks = <<>> THEN Failed("No audio produced")
    ELSE LET cat == NpConcatenate(<<chunks[Len(chunks)]>>)
             wav == SfWrite(cat.value, sample_rate)
         IN  IF cat.raised THEN Failed(cat.error)
             ELSE IF wav.raised THEN Failed(wav.error)
             ELSE Response("audio/wav", wav.value)

\* lines 135-145, once the generator is exhausted
Aggregate(chunks, sample_rate) ==
    IF chunks = <<>> THEN Failed("No audio produced")
    ELSE LET cat == NpConcatenate(chunks)
             wav == SfWrite(cat.value, sample_rate)
         IN  IF cat.raised THEN Failed(cat.error)
             ELSE IF wav.raised THEN Failed(wav.error)
             ELSE Response("audio/wav", wav.value)

\* lines 117-132: the checks, the effective values, and the call
\* pipeline(text, voice=, speed=, split_pattern=)
TtsBegin(w, r) ==
    /\ Dispatch(w)
    /\ r \in Requests(workload)
    /\ route' = [route EXCEPT ![w] = "/tts"]
    /\ req' = [req EXCEPT ![w] = Some(r)]
    /\ audio_chunks' = [audio_chunks EXCEPT ![w] = <<>>]
    /\ IF NotReady
       THEN /\ resp' = [resp EXCEPT ![w] = Some(HTTPException(503, "Pipeline not ready"))]
            /\ call' = [call EXCEPT ![w] = None]
            /\ rate' = [rate EXCEPT ![w] = None]
            /\ pc' = [pc EXCEPT ![w] = "done"]
       ELSE IF tts_text(r) = <<>>
       THEN /\ resp' = [resp EXCEPT ![w] = Some(HTTPException(400,
                           "Field 'text' is required and must be non-empty"))]
            /\ call' = [call EXCEPT ![w] = None]
            /\ rate' = [rate EXCEPT ![w] = None]
            /\ pc' = [pc EXCEPT ![w] = "done"]
       ELSE /\ resp' = [resp EXCEPT ![w] = None]
            /\ call' = [call EXCEPT ![w] =
                           Some([text |-> tts_text(r), voice |-> tts_voice(r),
                                 speed |-> tts_speed(r),
                                 split_pattern |-> tts_split_pattern(r)])]
            /\ rate' = [rate EXCEPT ![w] = Some(tts_sample_rate(r))]
            /\ pc' = [pc EXCEPT ![w] = "synth"]
    /\ UNCHANGED <<environ, threads, workload, proc, startup, pipeline>>

\* POST /tts with any body of the workload
Tts(w) == Dispatch(w) /\ \E r \in Requests(workload) : TtsBegin(w, r)

\* lines 132-133: the generator yields (_, _, audio); audio_chunks.append(audio)
TtsYield(w, audio) ==
    /\ pc[w] = "synth"
    /\ Len(audio_chunks[w]) < MaxChunks
    /\ audio_chunks' = [audio_chunks EXCEPT ![w] = Append(@, audio)]
    /\ UNCHANGED <<environ, threads, workload, proc, startup, pipeline, pc,
                   route, req, call, rate, resp>>

\* the handler also drops the handle when the engine raises
TtsRaiseResets(w) ==
    /\ pc[w] = "synth"
    /\ resp' = [resp EXCEPT ![w] = Some(Failed("engine error"))]
    /\ pc' = [pc EXCEPT ![w] = "done"]
    /\ audio_chunks' = [audio_chunks EXCEPT ![w] = <<>>]
    /\ pipeline' = None
    /\ UNCHANGED <<environ, threads, workload, proc, startup, route, req,
                   call, rate>>

\* lines 132, 144-145: the engine raises while the generator is consumed
TtsRaise(w) ==
    /\ pc[w] = "synth"
    /\ resp' = [resp EXCEPT ![w] = Some(Failed("engine error"))]
    /\ pc' = [pc EXCEPT ![w] = "done"]
    /\ audio_chunks' = [audio_chunks EXCEPT ![w] = <<>>]
    /\ UNCHANGED <<environ, threads, workload, proc, startup, pipeline, route,
                   req, call, rate>>

\* lines 135-145: the generator is exhausted
TtsFinish(w) ==
    /\ pc[w] = "synth"
    /\ resp' = [resp EXCEPT ![w] = Some(Aggregate(audio_chunks[w], Get(rate[w])))]
    /\ pc' = [pc EXCEPT ![w] = "done"]
    /\ audio_chunks' = [audio_chunks EXCEPT ![w] = <<>>]
    /\ UNCHANGED <<environ, threads, workload, proc, startup, pipeline, route,
                   req, call, rate>>

Next ==
    \/ StartupOk
    \/ StartupFailed
    \/ \E w \in Workers : Index(w)
    \/ \E w \in Workers : Health(w)
    \/ \E w \in Workers : ListVoices(w)
    \/ \E w \in Workers : Tts(w)
    \/ \E w \in Workers, audio \in Chunks : TtsYield(w, audio)
    \/ \E w \in Workers : TtsRaise(w)
    \/ \E w \in Workers : TtsFinish(w)
    \/ \E w \in Workers : Send(w)

Spec == Init /\ [][Next]_vars

SpecRequests == InitRequests /\ [][Next]_vars

SpecConfig == InitConfig /\ [][Next]_vars

(***************************************************************************)
(* Properties                                                              *)
(***************************************************************************)
\* the status code of an optional response, 0 when there is none
Status(o) == IF o = None THEN 0 ELSE Get(o).status_code

\* the text is empty or consists only of whitespace
Blank(text) == \A i \in 1..Len(text) : text[i] \in Whitespace

\* worker w starts handling a request for path in this step
Handles(w, path) == pc[w] = "idle" /\ pc'[w] # "idle" /\ route'[w] = path

\* C1: while the engine handle is not initialized, /health answers
\* ready=false and /tts answers 503 without invoking the engine, whatever
\* the body; /health answers ready=true exactly when the handle is initialized.
C1_NotReadyRefuses ==
    [][\A w \in Workers :
          /\ Handles(w, "/health") =>
                /\ Status(resp'[w]) = 200
                /\ Get(Get(resp'[w]).body).ready = (pipeline # None)
          /\ (Handles(w, "/tts") /\ pipeline = None) =>
                /\ Status(resp'[w]) = 503
                /\ pc'[w] = "done"
                /\ call'[w] = None]_vars

C1_Witness ==
    /\ pipeline = None
    /\ \E w, u \in Workers :
          /\ route[w] = "/tts" /\ Status(resp[w]) = 503 /\ call[w] = None
          /\ route[u] = "/health" /\ Status(resp[u]) = 200
          /\ Get(Get(resp[u]).body).ready = FALSE

\* C2 as stated: every /tts request with a blank text is answered 400 and
\* the engine is not invoked for it.
C2_BlankTextIs400 ==
    \A w \in Workers :
        (route[w] = "/tts" /\ pc[w] = "done" /\ Blank(Get(req[w]).text)) =>
            Status(resp[w]) = 400 /\ call[w] = None

\* C2 amended: a /tts request with a blank text never invokes the engine; it
\* is answered 400 when the engine handle is initialized and 503 when it is not.
C2_BlankTextRejected ==
    [][\A w \in Workers :
          (Handles(w, "/tts") /\ Blank(Get(req'[w]).text)) =>
              /\ pc'[w] = "done"
              /\ call'[w] = None
              /\ Status(resp'[w]) = IF pipeline = None THEN 503 ELSE 400]_vars

C2_Witness ==
    \E w \in Workers :
        /\ route[w] = "/tts" /\ pc[w] = "done" /\ pipeline # None
        /\ Get(req[w]).text = <<" ", " ">>
        /\ Get(req[w]).voice # None /\ Get(req[w]).speed # None
        /\ Status(resp[w]) = 400 /\ call[w] = None

\* C3: a speed <= 0 is rejected and never reaches the engine: every speed
\* the engine is invoked with is strictly positive.
C3_EngineSpeedPositive ==
    \A w \in Workers : call[w] # None => Get(call[w]).speed > 0

\* C4: when the engine yields no chunk for a non-blank text the answer is
\* 500; no request whose chunk list is empty ends in a 200.
C4_EmptyOutputIs500 ==
    [][\A w \in Workers :
          (pc[w] = "synth" /\ pc'[w] = "done" /\ audio_chunks[w] = <<>>) =>
              Status(resp'[w]) = 500]_vars

C4_Witness ==
    \E w \in Workers :
        /\ route[w] = "/tts" /\ pc[w] = "done" /\ call[w] # None
        /\ Status(resp[w]) = 500
        /\ Get(resp[w]).detail = "No audio produced"

\* what a WAV reader decodes from the data section
RECURSIVE WavSamples(_)
WavSamples(bytes) ==
    IF Len(bytes) < 2 THEN <<>>
    ELSE LET u == bytes[1] + 256 * bytes[2]
         IN  <<IF u >= 32768 THEN u - 65536 ELSE u>>
             \o WavSamples(SubSeq(bytes, 3, Len(bytes)))

\* c1 followed by c2 ... followed by cn
RECURSIVE InOrder(_)
InOrder(chunks) ==
    IF Len(chunks) = 0 THEN <<>>
    ELSE InOrder(SubSeq(chunks, 1, Len(chunks) - 1)) \o chunks[Len(chunks)].data

\* C5: the samples of a successful response are the chunks the engine
\* yielded, each exactly once and in the order yielded: every yielded chunk
\* is appended after the ones before it, and the WAV decodes to their
\* concatenation.
C5_ChunksInOrder ==
    [][\A w \in Workers :
          /\ (pc[w] = "synth" /\ audio_chunks'[w] # audio_chunks[w]
                 /\ pc'[w] = "synth") =>
                \E c \in Chunks : audio_chunks'[w] = audio_chunks[w] \o <<c>>
          /\ (pc[w] = "synth" /\ pc'[w] = "done" /\ Status(resp'[w]) = 200) =>
                /\ Len(audio_chunks[w]) >= 1
                /\ Get(Get(resp'[w]).body).frames = Len(InOrder(audio_chunks[w]))
                /\ WavSamples(Get(Get(resp'[w]).body).data) = InOrder(audio_chunks[w])]_vars

C5_Witness ==
    \E w \in Workers :
        /\ route[w] = "/tts" /\ pc[w] = "done" /\ Status(resp[w]) = 200
        /\ WavSamples(Get(Get(resp[w]).body).data) = <<-2, 300, 1>>

\* C6 as stated: each of voice, speed, split_pattern and sample_rate takes
\* the request's value when the request supplies the field and the
\* configured default when it omits it.
C6_SuppliedOrDefault ==
    \A w \in Workers :
        call[w] # None =>
            LET r == Get(req[w])
                c == Get(call[w])
            IN  /\ c.voice = IF r.voice # None THEN Get(r.voice) ELSE DEFAULT_VOICE
                /\ c.speed = IF r.speed # None THEN Get(r.speed) ELSE DEFAULT_SPEED
                /\ c.split_pattern =
                       IF r.split_pattern # None THEN Get(r.split_pattern)
                       ELSE SPLIT_PATTERN
                /\ Get(rate[w]) =
                       IF r.sample_rate # None THEN Get(r.sample_rate)
                       ELSE SAMPLE_RATE

\* C6 amended: speed and sample_rate take the request's value when supplied
\* and the default when omitted; voice and split_pattern take the request's
\* value when it is supplied and not the empty string, and the default when
\* it is omitted or the empty string.  The WAV of a successful response
\* declares the effective sample rate.
C6_EffectiveValues ==
    \A w \in Workers :
        call[w] # None =>
            LET r == Get(req[w])
                c == Get(call[w])
            IN  /\ c.voice =
                       IF r.voice # None /\ r.voice # {<<>>} THEN Get(r.voice)
                       ELSE DEFAULT_VOICE
                /\ c.speed = IF r.speed # None THEN Get(r.speed) ELSE DEFAULT_SPEED
                /\ c.split_pattern =
                       IF r.split_pattern # None /\ r.split_pattern # {<<>>}
                       THEN Get(r.split_pattern)
                       ELSE SPLIT_PATTERN
                /\ Get(rate[w]) =
                       IF r.sample_rate # None THEN Get(r.sample_rate)
                       ELSE SAMPLE_RATE
                /\ Status(resp[w]) = 200 =>
                       Get(Get(resp[w]).body).samplerate =
                           IF r.sample_rate # None THEN Get(r.sample_rate)
                           ELSE SAMPLE_RATE

C6_Witness ==
    \E w \in Workers :
        /\ call[w] # None /\ Status(resp[w]) = 200
        /\ environ = AllSet
        /\ Get(req[w]).voice = Some(BF_EMMA) /\ Get(call[w]).voice = BF_EMMA
        /\ Get(req[w]).speed = None /\ Get(call[w]).speed = 15
        /\ Get(req[w]).split_pattern = None /\ Get(call[w]).split_pattern = <<"\n">>
        /\ Get(req[w]).sample_rate = Some(16000)
        /\ Get(Get(resp[w]).body).samplerate = 16000

\* C7: a failed construction aborts startup: the process never serves, no
\* request is handled afterwards, and the construction is not retried.
C7_FailedStartupAborts ==
    /\ [](startup = "failed" => proc = "exited" /\ pipeline = None)
    /\ [][startup = "failed" =>
             UNCHANGED <<startup, proc, pipeline, pc, route, req, call, rate,
                         audio_chunks, resp>>]_vars

C7_Witness ==
    /\ startup = "failed" /\ proc = "exited" /\ pipeline = None
    /\ \E w \in Workers : route[w] = "/health" /\ pc[w] = "done"

\* C8: engine calls on the shared handle are mutually exclusive: never are
\* two workers inside the engine at the same time.
C8_MutualExclusion ==
    Cardinality({w \in Workers : pc[w] = "synth"}) <= 1

\* C9: GET /voices returns exactly the configured default voice merged with
\* the extra voices, without duplicates.
C9_VoicesAreDefaultPlusExtra ==
    \A w \in Workers :
        (route[w] = "/voices" /\ pc[w] = "done") =>
            LET voices == Get(Get(resp[w]).body).voices
            IN  /\ ListSet(voices) = {DEFAULT_VOICE} \cup ListSet(VOICES_EXTRA)
                /\ \A i, j \in 1..Len(voices) : voices[i] = voices[j] => i = j

\* C10: a failure while serving one /tts request becomes a 500 for that
\* request only: the step that ends a request after the engine call answers
\* 200 or 500 (500 when concatenation or encoding fails), and it leaves the
\* handle initialized and the same, the process serving, and every other
\* worker's request untouched.
C10_FailureIsLocal ==
    [][\A w \in Workers :
          (pc[w] = "synth" /\ pc'[w] # "synth") =>
              /\ pc'[w] = "done"
              /\ Status(resp'[w]) \in {200, 500}
              /\ ((\E i \in 1..Len(audio_chunks[w]) : audio_chunks[w][i].ndim = 0)
                    \/ Get(rate[w]) < 0) => Status(resp'[w]) = 500
              /\ pipeline # None
              /\ pipeline' = pipeline
              /\ proc' = "serving"
              /\ startup' = "ok"
              /\ \A u \in Workers \ {w} :
                    /\ pc'[u] = pc[u]
                    /\ route'[u] = route[u]
                    /\ req'[u] = req[u]
                    /\ call'[u] = call[u]
                    /\ rate'[u] = rate[u]
                    /\ audio_chunks'[u] = audio_chunks[u]
                    /\ resp'[u] = resp[u]]_vars

C10_Witness ==
    \E w, u \in Workers :
        /\ pc[w] = "done" /\ route[w] = "/tts" /\ Status(resp[w]) = 500
        /\ Get(resp[w]).detail = "engine error"
        /\ pc[u] = "synth" /\ Len(audio_chunks[u]) = 1
        /\ pipeline # None /\ proc = "serving"

====
